---- MODULE Spec2Model ----
(***************************************************************************)
(* Model of overlay_timer (src/video.py): a setup dialog, an overlay       *)
(* window driven by a one-second QTimer, and the start_cycle loop that     *)
(* alternates between them.                                                *)
(*                                                                         *)
(* Qt, VLC and yt-dlp are modelled by the effect of the calls the source   *)
(* makes: QTimer.start/stop decide whether the timeout callback can fire,  *)
(* QWidget.close hides the window (so its buttons can no longer be         *)
(* clicked), a signal's emit runs the connected slot synchronously, and    *)
(* QDialog.exec_ blocks its caller until the dialog is accepted or         *)
(* rejected.  Application defaults the source never sets are not part of   *)
(* the model.                                                              *)
(***************************************************************************)
EXTENDS Integers, Sequences, FiniteSets, TLC

(***************************************************************************)
(* Bounds of the model.                                                    *)
(***************************************************************************)
\* largest duration an overlay is constructed with
MaxDur == 4
\* largest number of timer intervals that elapse while one overlay is paused
MaxPausedSecs == 3
\* longest duration text and URL text handed to get_values on its own
MaxTextLen == 2
\* direct method calls made on one overlay object by the object-level harness
MaxCalls == 4

(***************************************************************************)
(* Text.  A text is a sequence of one-character strings.                   *)
(***************************************************************************)
Digits == <<"0", "1", "2", "3", "4", "5", "6", "7", "8", "9">>

IsDigit(c) == \E i \in 1..Len(Digits) : Digits[i] = c

DigitVal(c) == (CHOOSE i \in 1..Len(Digits) : Digits[i] = c) - 1

IsSpace(c) == c = " "

\* str.strip(): drop the leading, then the trailing whitespace
RECURSIVE LStrip(_)
LStrip(s) == IF s # <<>> /\ IsSpace(Head(s)) THEN LStrip(Tail(s)) ELSE s

RECURSIVE RStrip(_)
RStrip(s) ==
    IF s # <<>> /\ IsSpace(s[Len(s)]) THEN RStrip(SubSeq(s, 1, Len(s) - 1)) ELSE s

Strip(s) == RStrip(LStrip(s))

\* The digits of a decimal numeral scanned left to right, as int() scans them:
\* a single underscore may sit between two digits; anything else is an error.
\* State: acc is the value so far, prev is "none" (nothing read), "digit" or
\* "us" (an underscore was just read).  The result is -1 on error.
RECURSIVE ScanDigits(_, _, _)
ScanDigits(s, acc, prev) ==
    IF s = <<>>
    THEN IF prev = "digit" THEN acc ELSE -1
    ELSE IF IsDigit(Head(s))
         THEN ScanDigits(Tail(s), 10 * acc + DigitVal(Head(s)), "digit")
         ELSE IF Head(s) = "_" /\ prev = "digit"
              THEN ScanDigits(Tail(s), acc, "us")
              ELSE -1

\* int(text): [ok |-> FALSE] stands for the ValueError int() raises
PyInt(s) ==
    LET t == Strip(s)
        signed == t # <<>> /\ Head(t) \in {"+", "-"}
        body == IF signed THEN Tail(t) ELSE t
        mag == ScanDigits(body, 0, "none")
    IN  IF mag < 0
        THEN [ok |-> FALSE, val |-> 0]
        ELSE [ok |-> TRUE, val |-> IF signed /\ Head(t) = "-" THEN 0 - mag ELSE mag]

\* get_values whose except clause yields -1 instead of 0
get_values_noexcept(duration_text, url_text) ==
    [dur |-> IF PyInt(duration_text).ok THEN PyInt(duration_text).val ELSE -1,
     url |-> Strip(url_text)]

\* SetupDialog.get_values: try int(text) except: 0, and the stripped URL
get_values(duration_text, url_text) ==
    [dur |-> IF PyInt(duration_text).ok THEN PyInt(duration_text).val ELSE 0,
     url |-> Strip(url_text)]

(***************************************************************************)
(* The overlay window: the fields of one OverlayWindow object.             *)
(*   timer    whether self.timer is active (its timeout can fire)          *)
(*   player   the VLC player: "idle", "playing", "paused", "stopped", or   *)
(*            "none" while self.player has not been assigned               *)
(*   movie    the QMovie: "none" (static image), "idle", "running",        *)
(*            "paused", "stopped"                                          *)
(*   visible  the window is shown; closed: close() has been called         *)
(*   progress, progress_max   the QProgressBar's value and maximum         *)
(*   emitted  how many times self.finished.emit() has run                  *)
(*   emitted_clean  whether every such emit ran with the timer, the audio  *)
(*            and the movie stopped and the window closed                  *)
(*   connected whether finished is connected to start_cycle                *)
(***************************************************************************)

\* a setValue call that is lost
setValue_lost(o, v) == o

\* QProgressBar.setValue: a value outside the range is ignored
setValue(o, v) ==
    IF v >= 0 /\ v <= o.progress_max THEN [o EXCEPT !.progress = v] ELSE o

\* OverlayWindow.__init__, when neither the asset load nor the URL
\* resolution raises
NewOverlay(duration, gif) ==
    [duration |-> duration, elapsed |-> 0, paused |-> FALSE, timer |-> TRUE,
     player |-> "idle", movie |-> IF gif THEN "idle" ELSE "none",
     is_gif |-> gif, visible |-> FALSE, closed |-> FALSE,
     progress |-> 0, progress_max |-> duration, pause_btn |-> "Pause",
     emitted |-> 0, emitted_clean |-> TRUE, connected |-> FALSE]

\* OverlayWindow.__init__ that starts the tick schedule before it loads the
\* asset
OverlayInit_timer_first(duration, gif, asset_ok, resolve_ok) ==
    IF ~asset_ok
    THEN [raised |-> "asset", resolve_attempted |-> FALSE,
          ow |-> [NewOverlay(duration, gif) EXCEPT !.player = "none"]]
    ELSE IF ~resolve_ok
    THEN [raised |-> "resolve", resolve_attempted |-> TRUE,
          ow |-> [NewOverlay(duration, gif) EXCEPT !.player = "none"]]
    ELSE [raised |-> "none", resolve_attempted |-> TRUE,
          ow |-> NewOverlay(duration, gif)]

\* OverlayWindow.__init__ in the order of its statements: load the asset
\* (raise when it does not load), build the widgets, start the timer, resolve
\* the URL (raise when it does not resolve), create the player.  ow is the
\* object as far as it was built.
OverlayInit(duration, gif, asset_ok, resolve_ok) ==
    IF ~asset_ok
    THEN [raised |-> "asset", resolve_attempted |-> FALSE,
          ow |-> [NewOverlay(duration, gif) EXCEPT !.timer = FALSE, !.player = "none"]]
    ELSE IF ~resolve_ok
    THEN [raised |-> "resolve", resolve_attempted |-> TRUE,
          ow |-> [NewOverlay(duration, gif) EXCEPT !.player = "none"]]
    ELSE [raised |-> "none", resolve_attempted |-> TRUE,
          ow |-> NewOverlay(duration, gif)]

\* ow.show(): the window becomes visible and showEvent starts movie and audio
showEvent(o) ==
    [o EXCEPT !.visible = TRUE,
              !.movie = IF o.is_gif THEN "running" ELSE @,
              !.player = "playing"]

\* _finish that never closes the window
_finish_no_close(o) ==
    [o EXCEPT !.timer = FALSE,
              !.player = "stopped",
              !.movie = IF o.is_gif THEN "stopped" ELSE @,
              !.emitted = @ + 1]

\* _finish that leaves the tick schedule running
_finish_keep_timer(o) ==
    [o EXCEPT !.player = "stopped",
              !.movie = IF o.is_gif THEN "stopped" ELSE @,
              !.visible = FALSE, !.closed = TRUE,
              !.emitted = @ + 1]

\* the first part of _finish: stop timer, player and movie, close the window
teardown(o) ==
    [o EXCEPT !.timer = FALSE,
              !.player = IF @ = "none" THEN @ ELSE "stopped",
              !.movie = IF o.is_gif THEN "stopped" ELSE @,
              !.visible = FALSE, !.closed = TRUE]

TornDown(o) ==
    /\ ~o.timer
    /\ o.player \in {"none", "stopped"}
    /\ o.movie \in {"none", "stopped"}
    /\ ~o.visible
    /\ o.closed

\* self.finished.emit(), as the last statement of _finish
emit_finished(o) ==
    [o EXCEPT !.emitted = @ + 1,
              !.emitted_clean = @ /\ TornDown(o)]

\* _finish that emits finished first and tears down afterwards
_finish_emit_first(o) == teardown(emit_finished(o))

\* OverlayWindow._finish: stop timer, player, movie; close; emit finished
_finish(o) == emit_finished(teardown(o))

\* _tick that finishes only once elapsed exceeds duration
_tick_gt(o) ==
    IF ~o.paused
    THEN LET o1 == setValue([o EXCEPT !.elapsed = @ + 1], o.elapsed + 1)
         IN  IF o1.elapsed > o1.duration THEN _finish(o1) ELSE o1
    ELSE o

\* _tick that finishes one second early
_tick_early(o) ==
    IF ~o.paused
    THEN LET o1 == setValue([o EXCEPT !.elapsed = @ + 1], o.elapsed + 1)
         IN  IF o1.elapsed >= o1.duration - 1 THEN _finish(o1) ELSE o1
    ELSE o

\* _tick with the pause test inverted
_tick_inverted(o) ==
    IF o.paused
    THEN LET o1 == setValue([o EXCEPT !.elapsed = @ + 1], o.elapsed + 1)
         IN  IF o1.elapsed >= o1.duration THEN _finish(o1) ELSE o1
    ELSE o

\* _tick without the pause test
_tick_unguarded(o) ==
    LET o1 == setValue([o EXCEPT !.elapsed = @ + 1], o.elapsed + 1)
    IN  IF o1.elapsed >= o1.duration THEN _finish(o1) ELSE o1

\* OverlayWindow._tick
_tick(o) ==
    IF ~o.paused
    THEN LET o1 == setValue([o EXCEPT !.elapsed = @ + 1], o.elapsed + 1)
         IN  IF o1.elapsed >= o1.duration THEN _finish(o1) ELSE o1
    ELSE o

\* vlc MediaPlayer.pause(): toggles between playing and paused
player_pause(p) ==
    IF p = "playing" THEN "paused" ELSE IF p = "paused" THEN "playing" ELSE p

\* QMovie.setPaused
movie_setPaused(m, b) ==
    IF b THEN (IF m = "running" THEN "paused" ELSE m)
         ELSE (IF m \in {"none", "running"} THEN m ELSE "running")

\* _toggle_pause whose resume branch leaves the button reading Resume
_toggle_pause_label(o) ==
    IF ~o.paused
    THEN [o EXCEPT !.timer = FALSE,
                   !.player = player_pause(@),
                   !.movie = IF o.is_gif THEN movie_setPaused(@, TRUE) ELSE @,
                   !.pause_btn = "Resume",
                   !.paused = TRUE]
    ELSE [o EXCEPT !.timer = TRUE,
                   !.player = "playing",
                   !.movie = IF o.is_gif THEN movie_setPaused(@, FALSE) ELSE @,
                   !.paused = FALSE]

\* _toggle_pause whose resume branch never restarts the timer
_toggle_pause_no_restart(o) ==
    IF ~o.paused
    THEN [o EXCEPT !.timer = FALSE,
                   !.player = player_pause(@),
                   !.movie = IF o.is_gif THEN movie_setPaused(@, TRUE) ELSE @,
                   !.pause_btn = "Resume",
                   !.paused = TRUE]
    ELSE [o EXCEPT !.player = "playing",
                   !.movie = IF o.is_gif THEN movie_setPaused(@, FALSE) ELSE @,
                   !.pause_btn = "Pause",
                   !.paused = FALSE]

\* OverlayWindow._toggle_pause
_toggle_pause(o) ==
    IF ~o.paused
    THEN [o EXCEPT !.timer = FALSE,
                   !.player = player_pause(@),
                   !.movie = IF o.is_gif THEN movie_setPaused(@, TRUE) ELSE @,
                   !.pause_btn = "Resume",
                   !.paused = TRUE]
    ELSE [o EXCEPT !.timer = TRUE,
                   !.player = "playing",
                   !.movie = IF o.is_gif THEN movie_setPaused(@, FALSE) ELSE @,
                   !.pause_btn = "Pause",
                   !.paused = FALSE]

\* _cancel that stops everything but never calls _finish
_cancel_no_finish(o) ==
    [o EXCEPT !.timer = FALSE,
              !.player = "stopped",
              !.movie = IF o.is_gif THEN "stopped" ELSE @]

\* OverlayWindow._cancel
_cancel(o) ==
    _finish([o EXCEPT !.timer = FALSE,
                      !.player = "stopped",
                      !.movie = IF o.is_gif THEN "stopped" ELSE @])

\* start_cycle that never connects the overlay's finished signal
connect_finished_missing(o) == o

\* ow.finished.connect(start_cycle)
connect_finished(o) == [o EXCEPT !.connected = TRUE]

\* start_cycle that quits when the confirmed values are rejected
start_cycle_branch_quit(accepted, vals) ==
    IF accepted
    THEN IF vals.dur > 0 /\ vals.url # <<>> THEN "overlay" ELSE "quit"
    ELSE "quit"

\* start_cycle after dlg.exec_() returns: build an overlay, do nothing, or quit
start_cycle_branch(accepted, vals) ==
    IF accepted
    THEN IF vals.dur > 0 /\ vals.url # <<>> THEN "overlay" ELSE "none"
    ELSE "quit"

(***************************************************************************)
(* State of the program.                                                   *)
(*   app        "running" (app.exec_ is looping), "quit" (app.quit() was   *)
(*              called), "aborted" (an uncaught exception ended it)        *)
(*   dialogs    setup dialogs whose exec_() has not returned yet           *)
(*   overlays   the module-level holder list `overlays`                    *)
(*   IMAGE_PATH the kind of file the IMAGE_PATH constant names             *)
(*   partial    the OverlayWindow whose __init__ raised, as far as it was  *)
(*              built, while the reported traceback still refers to it     *)
(*   hist       bookkeeping about the overlay in the holder (not program   *)
(*              state): seconds that passed while it played and while it   *)
(*              was paused, whether it was paused or cancelled, whether it *)
(*              replaced an earlier overlay in the holder, and the direct  *)
(*              calls the object-level harness made                        *)
(*   last       the handler that ran last, with its inputs and results     *)
(***************************************************************************)
VARIABLES app, dialogs, overlays, IMAGE_PATH, partial, hist, last

vars == <<app, dialogs, overlays, IMAGE_PATH, partial, hist, last>>

NoHist ==
    [played |-> 0, pausedSecs |-> 0, everPaused |-> FALSE, pausedAt |-> 0,
     cancelled |-> FALSE, calls |-> 0, replaced |-> FALSE]

Last(op) ==
    [op |-> op, dur_text |-> <<>>, url_text |-> <<>>, dur |-> 0, url |-> <<>>,
     made |-> "-"]

Texts(chars, n) == UNION {[1..k -> chars] : k \in 0..n}

\* what the user may have typed into the two fields when a cycle is confirmed
DurInputs ==
    {<<>>, <<"a">>, <<"0">>, <<"-", "1">>} \cup {<<Digits[d + 1]>> : d \in 1..MaxDur}

UrlInputs == {<<>>, <<" ">>, <<"u">>, <<" ", "u">>}

\* path.lower().endswith('.gif')
is_gif == IMAGE_PATH = "gif"

\* finished connected to start_cycle twice
Slots_twice(o, o2) == IF o.connected THEN 2 * (o2.emitted - o.emitted) ELSE 0

\* the slots run by the emits between o and o2: each emit of a connected
\* finished signal calls start_cycle, which opens a setup dialog and blocks
Slots(o, o2) == IF o.connected THEN o2.emitted - o.emitted ELSE 0

\* the overlay the holder holds
Ov0 == overlays[1]

\* app.exec_() has started and the single-shot timer has called start_cycle,
\* which sits in dlg.exec_()
Init ==
    /\ app = "running"
    /\ dialogs = 1
    /\ overlays = <<>>
    /\ IMAGE_PATH \in {"png", "gif"}
    /\ partial = <<>>
    /\ hist = NoHist
    /\ last = Last("start")

\* one timer interval ends while self.timer is active: timeout calls _tick
Tick ==
    /\ app = "running"
    /\ overlays # <<>>
    /\ overlays[1].timer
    /\ overlays[1].paused => hist.pausedSecs < MaxPausedSecs
    /\ LET o == overlays[1]
           o2 == _tick(o)
       IN  /\ overlays' = <<o2>>
           /\ dialogs' = dialogs + Slots(o, o2)
           /\ hist' = [hist EXCEPT !.played = IF o.paused THEN @ ELSE @ + 1,
                                   !.pausedSecs = IF o.paused THEN @ + 1 ELSE @]
    /\ last' = Last("tick")
    /\ UNCHANGED <<app, IMAGE_PATH, partial>>

\* one second passes while the window is paused and self.timer is stopped:
\* no callback runs
PausedSecond ==
    /\ app = "running"
    /\ overlays # <<>>
    /\ overlays[1].visible
    /\ overlays[1].paused
    /\ ~overlays[1].timer
    /\ hist.pausedSecs < MaxPausedSecs
    /\ hist' = [hist EXCEPT !.pausedSecs = @ + 1]
    /\ last' = Last("paused_second")
    /\ UNCHANGED <<app, dialogs, overlays, IMAGE_PATH, partial>>

\* pause_btn.clicked: possible while the window is shown and no modal
\* dialog is open
TogglePause ==
    /\ app = "running"
    /\ dialogs = 0
    /\ overlays # <<>>
    /\ overlays[1].visible
    /\ LET o == overlays[1]
           o2 == _toggle_pause(o)
       IN  /\ overlays' = <<o2>>
           /\ dialogs' = dialogs + Slots(o, o2)
           /\ hist' = [hist EXCEPT !.everPaused = TRUE,
                                   !.pausedAt = IF o.paused THEN @ ELSE o.elapsed]
    /\ last' = Last("toggle_pause")
    /\ UNCHANGED <<app, IMAGE_PATH, partial>>

\* cancel_btn.clicked
Cancel ==
    /\ app = "running"
    /\ dialogs = 0
    /\ overlays # <<>>
    /\ overlays[1].visible
    /\ LET o == overlays[1]
           o2 == _cancel(o)
       IN  /\ overlays' = <<o2>>
           /\ dialogs' = dialogs + Slots(o, o2)
    /\ hist' = [hist EXCEPT !.cancelled = TRUE]
    /\ last' = Last("cancel")
    /\ UNCHANGED <<app, IMAGE_PATH, partial>>

\* the record of a confirmed setup
Accepted(dt, ut, made) ==
    [op |-> "accept", dur_text |-> dt, url_text |-> ut,
     dur |-> get_values(dt, ut).dur, url |-> get_values(dt, ut).url,
     made |-> made]

\* Start is clicked and start_cycle builds, connects, shows and stores the
\* overlay
AcceptOverlay ==
    /\ app = "running"
    /\ dialogs > 0
    /\ \E dt \in DurInputs, ut \in UrlInputs :
         LET vals == get_values(dt, ut)
         IN  /\ start_cycle_branch(TRUE, vals) = "overlay"
             /\ vals.dur <= MaxDur
             /\ overlays' = <<showEvent(connect_finished(
                                OverlayInit(vals.dur, is_gif, TRUE, TRUE).ow))>>
             /\ last' = Accepted(dt, ut, "overlay")
    /\ dialogs' = dialogs - 1
    /\ hist' = [NoHist EXCEPT !.replaced = overlays # <<>>]
    /\ UNCHANGED <<app, IMAGE_PATH, partial>>

\* Start is clicked and OverlayWindow.__init__ raises (the asset does not
\* load, or the URL does not resolve): nothing catches it in start_cycle, so
\* the binding either aborts the process or reports it and keeps looping;
\* the reported traceback may keep the half-built object alive
AcceptRaise ==
    /\ app = "running"
    /\ dialogs > 0
    /\ \E dt \in DurInputs, ut \in UrlInputs, asset_ok \in BOOLEAN,
          resolve_ok \in BOOLEAN, fatal \in BOOLEAN, kept \in BOOLEAN :
         LET vals == get_values(dt, ut)
             c == OverlayInit(vals.dur, is_gif, asset_ok, resolve_ok)
         IN  /\ start_cycle_branch(TRUE, vals) = "overlay"
             /\ vals.dur <= MaxDur
             /\ c.raised # "none"
             /\ app' = IF fatal THEN "aborted" ELSE "running"
             /\ partial' = IF ~fatal /\ kept THEN <<c>> ELSE <<>>
             /\ last' = Accepted(dt, ut, "raised")
    /\ dialogs' = dialogs - 1
    /\ UNCHANGED <<overlays, IMAGE_PATH, hist>>

\* one timer interval ends for the half-built object whose timer was started
TickPartial ==
    /\ app = "running"
    /\ partial # <<>>
    /\ partial[1].ow.timer
    /\ LET o == partial[1].ow
           o2 == _tick(o)
       IN  /\ partial' = <<[partial[1] EXCEPT !.ow = o2]>>
           /\ dialogs' = dialogs + Slots(o, o2)
    /\ last' = Last("tick_partial")
    /\ UNCHANGED <<app, overlays, IMAGE_PATH, hist>>

\* Start is clicked and start_cycle builds nothing
AcceptOther ==
    /\ app = "running"
    /\ dialogs > 0
    /\ \E dt \in DurInputs, ut \in UrlInputs :
         LET br == start_cycle_branch(TRUE, get_values(dt, ut))
         IN  /\ br # "overlay"
             /\ app' = IF br = "quit" THEN "quit" ELSE app
             /\ last' = Accepted(dt, ut, br)
    /\ dialogs' = dialogs - 1
    /\ UNCHANGED <<overlays, IMAGE_PATH, partial, hist>>

\* the dialog is closed without Start: exec_() returns 0
Dismiss ==
    /\ app = "running"
    /\ dialogs > 0
    /\ app' = IF start_cycle_branch(FALSE, get_values(<<>>, <<>>)) = "quit"
              THEN "quit" ELSE app
    /\ dialogs' = dialogs - 1
    /\ last' = Last("dismiss")
    /\ UNCHANGED <<overlays, IMAGE_PATH, partial, hist>>

Next ==
    \/ Tick
    \/ PausedSecond
    \/ TogglePause
    \/ Cancel
    \/ AcceptOverlay
    \/ AcceptRaise
    \/ TickPartial
    \/ AcceptOther
    \/ Dismiss

Spec == Init /\ [][Next]_vars

\* The program with its one-second timer: self.timer.start(1000) makes the
\* timeout fire again and again for as long as the timer is active.
SpecLive == Spec /\ WF_vars(Tick)

(***************************************************************************)
(* Object-level harness: one overlay, built, connected and shown as        *)
(* start_cycle does, whose methods are then called directly in any order,  *)
(* as a unit test would call them (no timer or button decides what runs).  *)
(***************************************************************************)
InitApi ==
    /\ app = "running"
    /\ dialogs = 0
    /\ IMAGE_PATH \in {"png", "gif"}
    /\ \E d \in 1..MaxDur :
         overlays = <<showEvent(connect_finished(NewOverlay(d, is_gif)))>>
    /\ partial = <<>>
    /\ hist = NoHist
    /\ last = Last("start")

\* the bookkeeping of one direct call of method op that turns o into o2
Called(op, o, o2) ==
    /\ hist.calls < MaxCalls
    /\ overlays' = <<o2>>
    /\ dialogs' = dialogs + Slots(o, o2)
    /\ hist' = [hist EXCEPT !.calls = @ + 1]
    /\ last' = Last(op)
    /\ UNCHANGED <<app, IMAGE_PATH, partial>>

CallTick == Called("_tick", Ov0, _tick(Ov0))

CallTogglePause == Called("_toggle_pause", Ov0, _toggle_pause(Ov0))

CallCancel == Called("_cancel", Ov0, _cancel(Ov0))

CallFinish == Called("_finish", Ov0, _finish(Ov0))

NextApi ==
    \/ CallTick
    \/ CallTogglePause
    \/ CallCancel
    \/ CallFinish

SpecApi == InitApi /\ [][NextApi]_vars

(***************************************************************************)
(* get_values on its own: the first setup dialog is open and get_values is *)
(* applied once, to any pair of texts over a small alphabet.               *)
(***************************************************************************)
DurChars == {"0", "4", "5", "a", " ", "-", "+", "_"}

UrlChars == {"u", " "}

CallGetValues ==
    /\ app = "running"
    /\ dialogs > 0
    /\ last.op = "start"
    /\ \E dt \in Texts(DurChars, MaxTextLen), ut \in Texts(UrlChars, MaxTextLen) :
         last' = [op |-> "get_values", dur_text |-> dt, url_text |-> ut,
                  dur |-> get_values(dt, ut).dur, url |-> get_values(dt, ut).url,
                  made |-> "-"]
    /\ UNCHANGED <<app, dialogs, overlays, IMAGE_PATH, partial, hist>>

SpecGetValues == Init /\ [][CallGetValues]_vars

(***************************************************************************)
(* Properties.                                                             *)
(***************************************************************************)
HasOverlay == overlays # <<>>

Ov == Ov0

\* C1: every overlay has duration > 0 and 0 <= elapsed <= duration in every
\* reachable state, whatever ticks, pause toggles and cancels happened.
C1_ElapsedWithinDuration ==
    \A i \in 1..Len(overlays) :
        /\ overlays[i].duration > 0
        /\ 0 <= overlays[i].elapsed
        /\ overlays[i].elapsed <= overlays[i].duration

C1_Witness ==
    /\ HasOverlay
    /\ last.op = "tick"
    /\ hist.everPaused
    /\ Ov.elapsed = Ov.duration
    /\ Ov.duration = MaxDur

\* C2: an overlay emits finished at most once, it has emitted exactly once
\* whenever elapsed has reached duration, and it has emitted exactly when it
\* is closed.
C2_FinishedOnce ==
    \A i \in 1..Len(overlays) :
        /\ overlays[i].emitted <= 1
        /\ overlays[i].elapsed >= overlays[i].duration => overlays[i].emitted = 1
        /\ overlays[i].closed <=> overlays[i].emitted = 1

C2_Witness ==
    /\ HasOverlay
    /\ last.op = "tick"
    /\ Ov.emitted = 1
    /\ Ov.elapsed = Ov.duration
    /\ ~hist.cancelled

\* C3: an overlay that was never paused or cancelled is not finished while
\* fewer than duration ticks have run, is finished with elapsed = duration
\* once duration ticks have run, and no tick runs after that (its timer is
\* stopped and the ticks that ran number exactly duration).
C3_FinishAtDthTick ==
    (HasOverlay /\ ~hist.everPaused /\ ~hist.cancelled) =>
        /\ hist.played <= Ov.duration
        /\ Ov.elapsed = hist.played
        /\ hist.played < Ov.duration => (~Ov.closed /\ Ov.emitted = 0 /\ Ov.timer)
        /\ hist.played = Ov.duration => (Ov.closed /\ Ov.emitted = 1 /\ ~Ov.timer)

C3_Witness ==
    /\ HasOverlay
    /\ ~hist.everPaused
    /\ ~hist.cancelled
    /\ Ov.closed
    /\ hist.played = 3
    /\ Ov.duration = 3

\* C4: for an overlay that was paused, elapsed counts exactly the seconds
\* that passed while it played, none of those that passed while it was
\* paused, and unless cancelled it is finished exactly when elapsed =
\* duration.
C4_PausedSecondsDoNotCount ==
    (HasOverlay /\ hist.everPaused) =>
        /\ Ov.elapsed = hist.played
        /\ ~hist.cancelled => (Ov.closed <=> Ov.elapsed = Ov.duration)

C4_Witness ==
    /\ HasOverlay
    /\ hist.everPaused
    /\ ~hist.cancelled
    /\ hist.pausedSecs = MaxPausedSecs
    /\ hist.pausedAt > 0
    /\ hist.pausedAt < Ov.duration
    /\ Ov.closed
    /\ Ov.elapsed = Ov.duration

\* C5: a cancel taken at elapsed = e < duration, playing or paused, leaves
\* the overlay finished (closed, timer stopped, finished emitted) in that
\* one step and leaves elapsed = e.
C5_CancelFinishesDirectly ==
    [][last'.op = "cancel" =>
          /\ Ov.elapsed < Ov.duration
          /\ ~Ov.closed
          /\ overlays'[1].closed
          /\ ~overlays'[1].timer
          /\ overlays'[1].emitted = 1
          /\ overlays'[1].elapsed = Ov.elapsed]_vars

C5_Witness ==
    /\ HasOverlay
    /\ last.op = "cancel"
    /\ Ov.closed
    /\ Ov.paused
    /\ Ov.elapsed > 0
    /\ Ov.elapsed < Ov.duration

\* C6: a _finish called on an overlay that _finish has already finished
\* leaves the overlay as the first call left it (timer stopped, playback
\* stopped, closed, one completion signalled) and opens nothing new.
C6_FinishIdempotent ==
    [][(last'.op = "_finish" /\ Ov.closed /\ Ov.emitted = 1) =>
          (overlays' = overlays /\ dialogs' = dialogs)]_vars

\* C7: after a setup confirmed with an empty URL or a duration <= 0 no
\* overlay has been built, and a setup dialog is open again or the process
\* has quit.
C7_InvalidConfirmRepresentsOrExits ==
    (last.op = "accept" /\ (last.dur <= 0 \/ last.url = <<>>)) =>
        /\ last.made # "overlay"
        /\ dialogs > 0 \/ app = "quit"

\* C8: every step in which an overlay emits finished, by a tick or by a
\* cancel, opens the setup dialog in that same step.
C8_CompletionRepresentsSetup ==
    [][(HasOverlay /\ overlays' # <<>> /\ last'.op \in {"tick", "cancel"}
        /\ overlays'[1].emitted > Ov.emitted) =>
          (dialogs' = dialogs + 1 /\ app' = "running")]_vars

C8_Witness ==
    /\ HasOverlay
    /\ last.op = "cancel"
    /\ Ov.emitted = 1
    /\ ~Ov.paused
    /\ dialogs = 1
    /\ app = "running"

Spaces(n) == [i \in 1..n |-> " "]

DigitsOnly(t) == SelectSeq(t, IsDigit)

RECURSIVE Pow10(_)
Pow10(n) == IF n = 0 THEN 1 ELSE 10 * Pow10(n - 1)

RECURSIVE SumTo(_, _)
SumTo(ds, k) ==
    IF k = 0 THEN 0
    ELSE DigitVal(ds[k]) * Pow10(Len(ds) - k) + SumTo(ds, k - 1)

DecimalValue(ds) == SumTo(ds, Len(ds))

IsNumeral(c) ==
    /\ c # <<>>
    /\ \A i \in 1..Len(c) : IsDigit(c[i]) \/ c[i] = "_"
    /\ IsDigit(c[1])
    /\ IsDigit(c[Len(c)])
    /\ \A i \in 1..(Len(c) - 1) : ~(c[i] = "_" /\ c[i + 1] = "_")

\* the readings of t as an integer text: [sign, numeral]
Readings(t) ==
    {r \in [sign : {-1, 1}, from : 1..(Len(t) + 1), to : 0..Len(t)] :
        /\ r.from <= r.to
        /\ IsNumeral(SubSeq(t, r.from, r.to))
        /\ \A i \in (r.to + 1)..Len(t) : t[i] = " "
        /\ \/ /\ r.sign = 1
              /\ \A i \in 1..(r.from - 1) : t[i] = " "
           \/ /\ r.from > 1
              /\ t[r.from - 1] = (IF r.sign = 1 THEN "+" ELSE "-")
              /\ \A i \in 1..(r.from - 2) : t[i] = " "}

C10_GetValues ==
    last.op = "get_values" =>
        /\ \E a \in 0..Len(last.url_text), b \in 0..Len(last.url_text) :
              last.url_text = Spaces(a) \o last.url \o Spaces(b)
        /\ last.url # <<>> => (Head(last.url) # " " /\ last.url[Len(last.url)] # " ")
        /\ \A r \in Readings(last.dur_text) :
              last.dur = r.sign * DecimalValue(DigitsOnly(
                             SubSeq(last.dur_text, r.from, r.to)))
        /\ Readings(last.dur_text) = {} => last.dur = 0

C10_Witness ==
    /\ last.op = "get_values"
    /\ last.dur_text = <<"4", "5">>
    /\ last.dur = 45
    /\ last.url_text = <<" ", "u">>
    /\ last.url = <<"u">>

\* The state of the overlay state machine an overlay object is in.
State(o) ==
    IF o.closed THEN "Finished"
    ELSE IF ~o.visible THEN "Created"
    ELSE IF o.paused THEN "Paused" ELSE "Playing"

BuildsOverlay(l) == l.op = "accept" /\ l.made = "overlay"

\* C11: a new overlay is Created and is Playing once shown; afterwards its
\* state changes only Playing -> Paused and Paused -> Playing (by the pause
\* control) and Playing -> Finished or Paused -> Finished (by a finishing
\* tick or by cancel, and every cancel finishes); once it is Finished no
\* step changes it at all.
C11_StateMachine ==
    [][/\ BuildsOverlay(last') =>
             /\ State(NewOverlay(last'.dur, is_gif)) = "Created"
             /\ State(overlays'[1]) = "Playing"
       /\ (HasOverlay /\ ~BuildsOverlay(last')) =>
             LET s == State(Ov)
                 t == State(overlays'[1])
             IN  /\ \/ s = t
                    \/ <<s, t>> \in {<<"Playing", "Paused">>, <<"Paused", "Playing">>,
                                     <<"Playing", "Finished">>, <<"Paused", "Finished">>}
                 /\ (s # t /\ t # "Finished") => last'.op = "toggle_pause"
                 /\ last'.op = "toggle_pause" => s # t
                 /\ (s # t /\ t = "Finished") => last'.op \in {"tick", "cancel"}
                 /\ last'.op = "cancel" => t = "Finished"
                 /\ s = "Finished" => overlays' = overlays]_vars

C11_Witness ==
    /\ HasOverlay
    /\ State(Ov) = "Finished"
    /\ Ov.paused
    /\ last.op = "accept"
    /\ last.made = "none"
    /\ hist.pausedSecs > 0

\* C12: while an overlay is shown and not finished, paused holds exactly
\* when its timer is stopped, exactly when the audio is paused (and the audio
\* plays otherwise), and exactly when the button reads Resume; a pause
\* toggle flips all four together and a second toggle restores the state.
C12_PauseFlagsAgree ==
    (HasOverlay /\ Ov.visible /\ ~Ov.closed) =>
        /\ Ov.paused <=> ~Ov.timer
        /\ Ov.paused <=> Ov.player = "paused"
        /\ ~Ov.paused <=> Ov.player = "playing"
        /\ Ov.paused <=> Ov.pause_btn = "Resume"
        /\ ~Ov.paused <=> Ov.pause_btn = "Pause"
        /\ LET t == _toggle_pause(Ov)
           IN  /\ t.paused # Ov.paused
               /\ t.timer # Ov.timer
               /\ t.player # Ov.player
               /\ t.pause_btn # Ov.pause_btn
               /\ _toggle_pause(t) = Ov

C12_Witness ==
    /\ HasOverlay
    /\ Ov.visible
    /\ ~Ov.closed
    /\ last.op = "toggle_pause"
    /\ ~Ov.paused
    /\ hist.pausedSecs > 0
    /\ Ov.elapsed > 0

\* C13: a Finished overlay, whether a tick or a cancel finished it and
\* whether it was playing or paused, has its timer stopped, its audio
\* stopped, its movie stopped (when it has one) and its window closed, and
\* all of that was already so when finished was emitted.
C13_FinishedIsTornDown ==
    (HasOverlay /\ State(Ov) = "Finished") =>
        /\ ~Ov.timer
        /\ Ov.player = "stopped"
        /\ Ov.is_gif => Ov.movie = "stopped"
        /\ ~Ov.visible
        /\ Ov.emitted >= 1
        /\ Ov.emitted_clean

C13_Witness ==
    /\ HasOverlay
    /\ State(Ov) = "Finished"
    /\ Ov.is_gif
    /\ Ov.paused
    /\ hist.cancelled
    /\ Ov.emitted_clean
    /\ dialogs = 1

\* C14: a _tick called while the overlay is paused changes nothing:
\* elapsed, the progress value, paused and the overlay's state (indeed every
\* field) stay as they were, and no finish runs (nothing is emitted and no
\* setup dialog opens).
C14_TickWhilePausedIsNoOp ==
    [][(last'.op = "_tick" /\ Ov.paused) =>
          /\ overlays'[1].elapsed = Ov.elapsed
          /\ overlays'[1].progress = Ov.progress
          /\ overlays'[1].paused = Ov.paused
          /\ State(overlays'[1]) = State(Ov)
          /\ overlays'[1].emitted = Ov.emitted
          /\ overlays' = overlays
          /\ dialogs' = dialogs]_vars

C14_Witness ==
    /\ HasOverlay
    /\ last.op = "_tick"
    /\ Ov.paused
    /\ State(Ov) = "Paused"
    /\ Ov.elapsed > 0
    /\ Ov.elapsed = Ov.duration - 1

\* C15: an overlay whose asset failed to load raised before its timer was
\* started and before the URL was resolved: as long as the object exists its
\* timer is not running, it has counted nothing, it was never shown (it is
\* still Created), and it has emitted nothing, so no setup dialog was opened
\* through its finished signal.
C15_AssetFailureBeforeTimer ==
    (partial # <<>> /\ partial[1].raised = "asset") =>
        /\ ~partial[1].resolve_attempted
        /\ ~partial[1].ow.timer
        /\ partial[1].ow.elapsed = 0
        /\ State(partial[1].ow) = "Created"
        /\ partial[1].ow.emitted = 0
        /\ last.op # "tick_partial"
        /\ dialogs = 0

C15_Witness ==
    /\ partial # <<>>
    /\ partial[1].raised = "asset"
    /\ app = "running"
    /\ last.op = "accept"
    /\ last.made = "raised"
    /\ HasOverlay
    /\ Ov.closed

\* C16: the holder never has more than one overlay and at most one overlay
\* object (held or half-built) is Playing or Paused; no setup dialog is open while an overlay is
\* Playing or Paused; and an overlay is built only when the holder is empty
\* or the overlay in it has emitted finished (and is Finished).
Active(o) == State(o) \in {"Playing", "Paused"}

C16_OneOverlayAtATime ==
    /\ [](Len(overlays) <= 1)
    /\ [](Cardinality({i \in 1..Len(overlays) : Active(overlays[i])})
            + Cardinality({i \in 1..Len(partial) : Active(partial[i].ow)}) <= 1)
    /\ []((HasOverlay /\ Active(Ov)) => dialogs = 0)
    /\ [][BuildsOverlay(last') =>
            /\ dialogs > 0
            /\ HasOverlay => (Ov.emitted >= 1 /\ State(Ov) = "Finished")]_vars

C16_Witness ==
    /\ HasOverlay
    /\ Active(Ov)
    /\ hist.replaced
    /\ last.op = "toggle_pause"
    /\ dialogs = 0

\* C17: for every overlay object the progress bar's value equals elapsed
\* and its range is 0..duration, in every reachable state; so each step
\* that changes elapsed has moved the bar with it.
C17_ProgressShowsElapsed ==
    /\ \A i \in 1..Len(overlays) :
          /\ overlays[i].progress = overlays[i].elapsed
          /\ overlays[i].progress_max = overlays[i].duration
          /\ overlays[i].progress >= 0
    /\ \A i \in 1..Len(partial) :
          /\ partial[i].ow.progress = partial[i].ow.elapsed
          /\ partial[i].ow.progress_max = partial[i].ow.duration

C17_Witness ==
    /\ HasOverlay
    /\ last.op = "tick"
    /\ ~hist.everPaused
    /\ Ov.duration = MaxDur
    /\ Ov.elapsed = MaxDur - 1
    /\ Ov.progress = MaxDur - 1
    /\ ~Ov.closed

PausedNow == HasOverlay /\ State(Ov) = "Paused"
ActiveNow == HasOverlay /\ Active(Ov)
FinishedNow == HasOverlay /\ State(Ov) = "Finished"

\* C18: with the tick firing fairly, an overlay that is not paused again
\* and again without end (every pause is followed by a resume and the
\* pausing stops) reaches Finished; and a paused overlay is finished by no
\* step other than cancel, so one left paused forever never finishes
\* unless it is cancelled.
C18_FinishesUnlessPausedForever ==
    /\ (<>[]~PausedNow) => (ActiveNow ~> FinishedNow)
    /\ [][(PausedNow /\ overlays' # <<>> /\ State(overlays'[1]) = "Finished")
            => last'.op = "cancel"]_vars

C18_Witness ==
    /\ FinishedNow
    /\ last.op = "tick"
    /\ hist.everPaused
    /\ ~hist.cancelled
    /\ hist.pausedSecs = 1
    /\ hist.pausedAt = 1
    /\ Ov.duration = 2
    /\ Ov.emitted = 1

====
